---- MODULE Spec2Model ----
(***************************************************************************)
(* Model of app.py: a LangGraph pipeline sql_generator -> query_executor   *)
(* -> summarizer -> END over an AgentState record, driven by               *)
(* process_query.                                                          *)
(*                                                                         *)
(* Python strings are sequences of one-character strings.  An Optional     *)
(* value is a set: None is the empty set, a present value v is {v}.        *)
(***************************************************************************)
EXTENDS Integers, Sequences, FiniteSets, TLC

VARIABLES
    pc,          \* position of the invocation: "idle", a node name, "END", "returned"
    state,       \* the AgentState record threaded through the graph
    input,       \* the argument of the running process_query call
    outcome,     \* Optional return value of process_query
    invoked,     \* the nodes run so far in this invocation, in order
    failed,      \* the nodes whose external call raised in this invocation
    llmCalls,    \* per node, the number of chain.invoke calls in this invocation
    dbLog,       \* the driver calls made in this invocation, in order
    conn,        \* the invocation's connection: "none", "open" or "closed"
    completion,  \* Optional raw completion the generator received
    runs         \* number of process_query calls started

vars == <<pc, state, input, outcome, invoked, failed, llmCalls, dbLog, conn,
          completion, runs>>

---------------------------------------------------------------------------
(* Bounds *)

MaxBody == 2
MaxRows == 2
MaxRuns == 2

---------------------------------------------------------------------------
(* Optional values and Python truthiness *)

None == {}

Some(v) == {v}

Val(o) == CHOOSE v \in o : TRUE

\* bool(x) for an Optional[str]: None and "" are falsy
Truthy(o) == o # None /\ Val(o) # <<>>

---------------------------------------------------------------------------
(* String helpers *)

Whitespace == {" ", "\n"}

RECURSIVE LStrip(_)
LStrip(s) ==
    IF s # <<>> /\ Head(s) \in Whitespace THEN LStrip(Tail(s)) ELSE s

RECURSIVE RStrip(_)
RStrip(s) ==
    IF s # <<>> /\ s[Len(s)] \in Whitespace
    THEN RStrip(SubSeq(s, 1, Len(s) - 1))
    ELSE s

\* str.strip()
Strip(s) == RStrip(LStrip(s))

\* str.startswith(p)
StartsWith(s, p) == Len(s) >= Len(p) /\ SubSeq(s, 1, Len(p)) = p

\* str.endswith(p)
EndsWith(s, p) ==
    Len(s) >= Len(p) /\ SubSeq(s, Len(s) - Len(p) + 1, Len(s)) = p

\* str.replace(c, "") for a one-character c
RECURSIVE RemoveChar(_, _)
RemoveChar(s, c) ==
    IF s = <<>> THEN <<>>
    ELSE IF Head(s) = c THEN RemoveChar(Tail(s), c)
    ELSE <<Head(s)>> \o RemoveChar(Tail(s), c)

\* all sequences over S of length at most n
RECURSIVE SeqsUpTo(_, _)
SeqsUpTo(S, n) ==
    IF n = 0 THEN {<<>>}
    ELSE LET shorter == SeqsUpTo(S, n - 1)
         IN  shorter \cup {Append(s, c) : s \in shorter, c \in S}

---------------------------------------------------------------------------
(* Literals of app.py *)

SqlGenErrTag ==
    <<"S", "Q", "L", " ", "G", "e", "n", "e", "r", "a", "t", "i", "o", "n",
      " ", "E", "r", "r", "o", "r", ":", " ">>

NoSqlMsg ==
    <<"N", "o", " ", "S", "Q", "L", " ", "q", "u", "e", "r", "y", " ", "w",
      "a", "s", " ", "g", "e", "n", "e", "r", "a", "t", "e", "d">>

QueryExecErrTag ==
    <<"Q", "u", "e", "r", "y", " ", "E", "x", "e", "c", "u", "t", "i", "o",
      "n", " ", "E", "r", "r", "o", "r", ":", " ">>

SummErrTag ==
    <<"S", "u", "m", "m", "a", "r", "i", "z", "a", "t", "i", "o", "n", " ",
      "E", "r", "r", "o", "r", ":", " ">>

NoResultsMsg ==
    <<"N", "o", " ", "r", "e", "s", "u", "l", "t", "s", " ", "w", "e", "r",
      "e", " ", "r", "e", "t", "u", "r", "n", "e", "d", " ", "f", "r", "o",
      "m", " ", "t", "h", "e", " ", "q", "u", "e", "r", "y", ".">>

\* the backquote character (a string literal cannot hold one)
Backquote == "<backquote>"

\* the literal prefix tested by startswith: three backquotes and "sql"
FenceOpen == <<Backquote, Backquote, Backquote, "s", "q", "l">>

\* the literal suffix tested by endswith: three backquotes
FenceClose == <<Backquote, Backquote, Backquote>>

---------------------------------------------------------------------------
(* The environment: caller, language model, database *)

Queries == {<<>>, <<"Q">>}

\* str(e) of a raised exception
ExcTexts == {<<>>, <<"e", "r", "r">>}

Pad == {<<>>, <<" ">>, <<"\n">>}

Bodies == SeqsUpTo({"S", " "}, MaxBody)

\* the completion FenceOpen + newline + body + newline + FenceClose
Fenced(body) == FenceOpen \o <<"\n">> \o body \o <<"\n">> \o FenceClose

\* raw completions: optional fences and padding around a body
Completions ==
    {p1 \o op \o p2 \o b \o p3 \o cl :
        p1 \in {<<>>, <<" ">>}, op \in {<<>>, FenceOpen, FenceClose},
        p2 \in Pad, b \in Bodies, p3 \in Pad, cl \in {<<>>, FenceClose}}

SummaryTexts == {<<>>, <<" ", "o", "k", "\n">>}

\* a chain.invoke call returns text or raises
LlmReplies(texts) ==
    [ok : {TRUE}, text : texts] \cup [ok : {FALSE}, text : ExcTexts]

\* repr() of the rows a RealDictCursor can return
RowReprs == {<<"{", "a", "}">>, <<"R", "(", "{", "b", "}", ")">>}

RowLists == SeqsUpTo(RowReprs, MaxRows)

\* the driver calls of the try block, in program order
DbSteps ==
    <<"connect", "cursor", "execute", "fetchall", "cursor.close", "conn.close">>

\* failAt = 0: every driver call returns; failAt = i: call i raises
DbOutcomes ==
    [failAt : {0}, exc : {<<>>}, rows : RowLists]
        \cup [failAt : 1..Len(DbSteps), exc : ExcTexts, rows : {<<>>}]

---------------------------------------------------------------------------
(* The graph *)

Nodes == {"sql_generator", "query_executor", "summarizer"}

EntryPoint == "sql_generator"

\* fault variant of NextNode: the generator is wired straight to the summarizer
NextNode_SkipExecutor(n) ==
    CASE n = "sql_generator"  -> "summarizer"
      [] n = "query_executor" -> "summarizer"
      [] n = "summarizer"     -> "END"

\* the edges added by create_db_query_graph
NextNode(n) ==
    CASE n = "sql_generator"  -> "query_executor"
      [] n = "query_executor" -> "summarizer"
      [] n = "summarizer"     -> "END"

\* the dict a node returns overwrites the keys it names
Merge(st, upd) ==
    [k \in DOMAIN st |-> IF k \in DOMAIN upd THEN upd[k] ELSE st[k]]

InitialState(q) ==
    [query |-> q, sql |-> None, result |-> None, summary |-> None,
     error |-> None]

---------------------------------------------------------------------------
(* sql_generator *)

\* fault variant of PostProcess: the second strip() is missing
PostProcess_NoFinalStrip(raw) ==
    LET s1 == Strip(raw)
        s2 == IF StartsWith(s1, FenceOpen)
              THEN SubSeq(s1, Len(FenceOpen) + 1, Len(s1)) ELSE s1
    IN  IF EndsWith(s2, FenceClose)
        THEN SubSeq(s2, 1, Len(s2) - Len(FenceClose)) ELSE s2

\* lines 94-99: strip, drop the leading marker, drop the trailing marker, strip
PostProcess(raw) ==
    LET s1 == Strip(raw)
        s2 == IF StartsWith(s1, FenceOpen)
              THEN SubSeq(s1, Len(FenceOpen) + 1, Len(s1)) ELSE s1
        s3 == IF EndsWith(s2, FenceClose)
              THEN SubSeq(s2, 1, Len(s2) - Len(FenceClose)) ELSE s2
    IN  Strip(s3)

SqlGeneratorUpdate(r) ==
    IF r.ok
    THEN [sql |-> Some(PostProcess(r.text))]
    ELSE [error |-> Some(SqlGenErrTag \o r.text)]

SqlGenerator ==
    /\ pc = "sql_generator"
    /\ \E r \in LlmReplies(Completions) :
          /\ state' = Merge(state, SqlGeneratorUpdate(r))
          /\ completion' = IF r.ok THEN Some(r.text) ELSE None
          /\ failed' = IF r.ok THEN failed ELSE failed \cup {"sql_generator"}
    /\ llmCalls' = [llmCalls EXCEPT !["sql_generator"] = @ + 1]
    /\ invoked' = Append(invoked, "sql_generator")
    /\ pc' = NextNode("sql_generator")
    /\ UNCHANGED <<input, outcome, dbLog, conn, runs>>

---------------------------------------------------------------------------
(* execute_query *)

\* fault variant of SqlMissing: "if sql_query is None"
SqlMissing_NoneOnly(st) == st.sql = None

\* "if not sql_query"
SqlMissing(st) == ~Truthy(st.sql)

NoSqlUpdate == [error |-> Some(NoSqlMsg)]

\* str(result) of a list: "[" + ", ".join(repr(row)) + "]"
RECURSIVE JoinRows(_)
JoinRows(rows) ==
    IF rows = <<>> THEN <<>>
    ELSE IF Len(rows) = 1 THEN Head(rows)
    ELSE Head(rows) \o <<",", " ">> \o JoinRows(Tail(rows))

PyStr(rows) == <<"[">> \o JoinRows(rows) \o <<"]">>

ExecSuccessUpdate(rows) == [result |-> Some(RemoveChar(PyStr(rows), "{"))]

\* fault variant of ExecErrorUpdate: the generator's tag pasted into the handler
ExecErrorUpdate_WrongTag(e) == [error |-> Some(SqlGenErrTag \o e)]

ExecErrorUpdate(e) == [error |-> Some(QueryExecErrTag \o e)]

\* the driver calls made before control leaves the try block
DriverCalls(db) ==
    IF db.failAt = 0 THEN DbSteps ELSE SubSeq(DbSteps, 1, db.failAt)

\* the connection when control leaves the try block
ConnAfter(db) ==
    IF db.failAt = 0 THEN "closed"
    ELSE IF db.failAt = 1 THEN "none"
    ELSE "open"

ExecuteQuery ==
    /\ pc = "query_executor"
    /\ IF SqlMissing(state)
       THEN /\ state' = Merge(state, NoSqlUpdate)
            /\ UNCHANGED <<dbLog, conn, failed>>
       ELSE \E db \in DbOutcomes :
               /\ state' = Merge(state,
                                 IF db.failAt = 0
                                 THEN ExecSuccessUpdate(db.rows)
                                 ELSE ExecErrorUpdate(db.exc))
               /\ dbLog' = dbLog \o DriverCalls(db)
               /\ conn' = ConnAfter(db)
               /\ failed' = IF db.failAt = 0 THEN failed
                            ELSE failed \cup {"query_executor"}
    /\ invoked' = Append(invoked, "query_executor")
    /\ pc' = NextNode("query_executor")
    /\ UNCHANGED <<input, outcome, llmCalls, completion, runs>>

---------------------------------------------------------------------------
(* summarize_results *)

\* "if not query_results"
ResultsMissing(st) == ~Truthy(st.result)

NoResultsUpdate == [summary |-> Some(NoResultsMsg)]

SummarizerUpdate(r) ==
    IF r.ok
    THEN [summary |-> Some(Strip(r.text))]
    ELSE [error |-> Some(SummErrTag \o r.text)]

SummarizeResults ==
    /\ pc = "summarizer"
    /\ IF ResultsMissing(state)
       THEN /\ state' = Merge(state, NoResultsUpdate)
            /\ UNCHANGED <<llmCalls, failed>>
       ELSE \E r \in LlmReplies(SummaryTexts) :
               /\ state' = Merge(state, SummarizerUpdate(r))
               /\ llmCalls' = [llmCalls EXCEPT !["summarizer"] = @ + 1]
               /\ failed' = IF r.ok THEN failed
                            ELSE failed \cup {"summarizer"}
    /\ invoked' = Append(invoked, "summarizer")
    /\ pc' = NextNode("summarizer")
    /\ UNCHANGED <<input, outcome, dbLog, conn, completion, runs>>

---------------------------------------------------------------------------
(* process_query *)

\* the call: a fresh graph and a fresh state record, then graph.invoke
ProcessQuery(q) ==
    /\ pc \in {"idle", "returned"}
    /\ runs < MaxRuns
    /\ runs' = runs + 1
    /\ input' = q
    /\ state' = InitialState(q)
    /\ outcome' = None
    /\ invoked' = <<>>
    /\ failed' = {}
    /\ llmCalls' = [n \in Nodes |-> 0]
    /\ dbLog' = <<>>
    /\ conn' = "none"
    /\ completion' = None
    /\ pc' = EntryPoint

\* fault variant of ProcessQueryResult: the branch tests sql instead of error
ProcessQueryResult_SqlTest(st) ==
    IF ~Truthy(st.sql)
    THEN [status |-> "error", message |-> Val(st.error)]
    ELSE [status |-> "success", query |-> st.query, sql |-> st.sql,
          result |-> st.result, summary |-> st.summary]

\* the value returned for a final graph state
ProcessQueryResult(st) ==
    IF Truthy(st.error)
    THEN [status |-> "error", message |-> Val(st.error)]
    ELSE [status |-> "success", query |-> st.query, sql |-> st.sql,
          result |-> st.result, summary |-> st.summary]

ProcessQueryReturn ==
    /\ pc = "END"
    /\ outcome' = Some(ProcessQueryResult(state))
    /\ pc' = "returned"
    /\ UNCHANGED <<state, input, invoked, failed, llmCalls, dbLog, conn,
                   completion, runs>>

---------------------------------------------------------------------------

Init ==
    /\ pc = "idle"
    /\ state = InitialState(<<>>)
    /\ input = <<>>
    /\ outcome = None
    /\ invoked = <<>>
    /\ failed = {}
    /\ llmCalls = [n \in Nodes |-> 0]
    /\ dbLog = <<>>
    /\ conn = "none"
    /\ completion = None
    /\ runs = 0

Next ==
    \/ \E q \in Queries : ProcessQuery(q)
    \/ SqlGenerator
    \/ ExecuteQuery
    \/ SummarizeResults
    \/ ProcessQueryReturn

Spec == Init /\ [][Next]_vars

---------------------------------------------------------------------------
(* Properties *)

Finished == pc \in {"END", "returned"}

\* the Optional string o is present and begins with tag
HasTag(o, tag) == o # None /\ StartsWith(Val(o), tag)

PipelineOrder == <<"sql_generator", "query_executor", "summarizer">>

\* no driver call occurs twice in log
NoRepeat(log) ==
    \A i, j \in DOMAIN log : log[i] = log[j] => i = j

\* the result text stored after a statement that returned no rows
ZeroRowsResult == Val(ExecSuccessUpdate(<<>>).result)

\* C1: process_query returns {status: "error", message} exactly when the
\* final state's error is set, with message equal to that error; otherwise
\* it returns {status: "success", query, sql, result, summary} with query
\* the input query and sql, result and summary all present.
C1_Outcome ==
    pc = "returned" =>
        LET o == Val(outcome)
        IN  IF state.error # None
            THEN o = [status |-> "error", message |-> Val(state.error)]
            ELSE /\ DOMAIN o = {"status", "query", "sql", "result", "summary"}
                 /\ o.status = "success"
                 /\ o.query = input
                 /\ o.sql = state.sql /\ o.sql # None
                 /\ o.result = state.result /\ o.result # None
                 /\ o.summary = state.summary /\ o.summary # None

\* a call returned success after all three external calls succeeded
C1_Witness ==
    /\ pc = "returned"
    /\ failed = {}
    /\ state.error = None
    /\ Val(outcome).status = "success"
    /\ input = <<"Q">>

\* C2: once a stage has recorded an error, every later stage of the same
\* invocation leaves error, sql, result and summary as it found them.
C2_PassThrough ==
    [][(pc \in Nodes /\ state.error # None) =>
           /\ state'.error = state.error
           /\ state'.sql = state.sql
           /\ state'.result = state.result
           /\ state'.summary = state.summary]_vars

\* C3: when the generator's completion call fails, process_query returns
\* status "error" with a message beginning with the SQL Generation Error
\* tag, and sql is never populated in that invocation.
C3_GeneratorFailureReported ==
    (pc = "returned" /\ "sql_generator" \in failed) =>
        /\ Val(outcome).status = "error"
        /\ StartsWith(Val(outcome).message, SqlGenErrTag)
        /\ state.sql = None

\* C4: when the summarizer runs with result absent or with the result of a
\* statement that returned zero rows, it sets summary to the fixed text and
\* calls no language model.
C4_NoResultsShortCircuit ==
    [][(pc = "summarizer"
            /\ (state.result = None \/ state.result = Some(ZeroRowsResult))) =>
           /\ state'.summary = Some(NoResultsMsg)
           /\ llmCalls' = llmCalls]_vars

\* C5: when the executor runs with sql absent or empty, the resulting state
\* has error "No SQL query was generated", result stays absent and no
\* database connection is opened.
C5_NoSql ==
    [][(pc = "query_executor"
            /\ (state.sql = None \/ state.sql = Some(<<>>))) =>
           /\ state'.error = Some(NoSqlMsg)
           /\ state.result = None /\ state'.result = None
           /\ dbLog' = <<>>
           /\ conn' = "none"]_vars

\* the executor has run on an empty sql text
C5_Witness ==
    /\ pc = "summarizer"
    /\ state.sql = Some(<<>>)
    /\ state.error = Some(NoSqlMsg)
    /\ dbLog = <<>>

\* C6: summary is present only if result is, result only if sql is, and no
\* stage turns a present sql, result or summary back to absent.
C6_PopulatedInOrder ==
    [][/\ state'.summary # None => state'.result # None
       /\ state'.result # None => state'.sql # None
       /\ pc \in Nodes =>
             \A k \in {"sql", "result", "summary"} :
                 state[k] # None => state'[k] # None]_vars

\* C7: every connection the executor opens is closed before the invocation
\* ends, and an invocation opens at most one connection.
C7_ConnectionClosed ==
    Finished =>
        /\ conn # "open"
        /\ Cardinality({i \in DOMAIN dbLog : dbLog[i] = "connect"}) <= 1

\* C8: when a driver call fails in the executor, the state records an error
\* beginning with the Query Execution Error tag, result stays absent, sql is
\* unchanged and no driver call is made twice.
C8_ExecutionFailure ==
    [][(pc = "query_executor" /\ "query_executor" \in failed') =>
           /\ HasTag(state'.error, QueryExecErrTag)
           /\ state'.result = None
           /\ state'.sql = state.sql
           /\ NoRepeat(dbLog')]_vars

\* cursor.execute raised in the executor
C8_Witness ==
    /\ pc = "summarizer"
    /\ "query_executor" \in failed
    /\ dbLog = <<"connect", "cursor", "execute">>
    /\ state.sql # None

\* C9: each invocation runs the three stages exactly once, in the order
\* generator, executor, summarizer, and then ends, error or no error.
C9_LinearOrder ==
    /\ pc = "sql_generator" => invoked = <<>>
    /\ pc = "query_executor" => invoked = SubSeq(PipelineOrder, 1, 1)
    /\ pc = "summarizer" => invoked = SubSeq(PipelineOrder, 1, 2)
    /\ Finished => invoked = PipelineOrder
    /\ Len(invoked) = Len(PipelineOrder) => Finished

\* the invocation ended after the generator's call had failed
C9_Witness ==
    /\ pc = "END"
    /\ "sql_generator" \in failed
    /\ state.error # None
    /\ invoked = PipelineOrder

\* C10: a completion FenceOpen + newline + body + newline + FenceClose is stored
\* as the trimmed body, a completion without fence markers as its trimmed
\* text; a lone leading or trailing marker is removed and the rest trimmed.
C10_PostProcess ==
    (pc = "query_executor" /\ completion # None) =>
        LET raw == Val(completion)
            s1 == Strip(raw)
            opens == StartsWith(s1, FenceOpen)
            closes == EndsWith(s1, FenceClose)
        IN  /\ \A body \in Bodies :
                  raw = Fenced(body) => state.sql = Some(Strip(body))
            /\ (~opens /\ ~closes) => state.sql = Some(s1)
            /\ (opens /\ ~closes) =>
                  state.sql = Some(Strip(SubSeq(s1, 7, Len(s1))))
            /\ (~opens /\ closes) =>
                  state.sql = Some(Strip(SubSeq(s1, 1, Len(s1) - 3)))

\* a fenced completion whose body carries surrounding whitespace was stored
C10_Witness ==
    /\ pc = "query_executor"
    /\ completion = Some(Fenced(<<" ", "S">>))
    /\ state.sql = Some(<<"S">>)
====
